---- MODULE Spec2Model ----
(***************************************************************************)
(* Model of the scan pipeline of the ethical web scraper:                  *)
(*   scraper/ethics.py  robots gate, ethical delay, rate-limit detection,  *)
(*                      exponential backoff                                *)
(*   scraper/core.py    scrape_static (retry loop), scrape_dynamic         *)
(*                      (single navigation), extraction, security.txt      *)
(*                      probe, TLS issuer lookup                           *)
(*   scraper/models.py  SecurityReport (pydantic model, url : HttpUrl)     *)
(*                                                                         *)
(* One scan is one call of scrape_static or scrape_dynamic.  The network,  *)
(* the robots.txt of the target, the browser runtime and the random number *)
(* generator are the environment: every outcome they can produce is a      *)
(* nondeterministic choice.  The variable log is the history of the        *)
(* operations the scan has performed on the outside world (network calls   *)
(* and sleeps), in program order; slept is the duration of the sleep the   *)
(* scan has just woken from.  Durations are in twentieths of a second, the *)
(* coarsest unit in which every duration constant of the code, and a tenth *)
(* of every backoff delay, is whole.                                       *)
(***************************************************************************)
EXTENDS Integers, Sequences, FiniteSets, TLC

VARIABLES
    pc,                  \* position of the scan in the code
    strategy,            \* "static" (scrape_static) or "dynamic" (scrape_dynamic)
    url_rejected,        \* does pydantic's HttpUrl reject the target url
    respect_robots,      \* argument respect_robots
    max_retries,         \* argument max_retries (scrape_static only)
    robots_env,          \* what reading <origin>/robots.txt yields for this target
    playwright_installed,\* can playwright.sync_api be imported
    no_delay,            \* was the scan started by the CLI with --no-delay
    attempt,             \* loop variable of "for attempt in range(max_retries)"
    response,            \* the response the scan is working on
    browser,             \* "none", "open" or "closed"
    log,                 \* operations performed so far, in order
    slept,               \* duration of the sleep just finished, 0 otherwise
    report,              \* the SecurityReport returned (NoReport before that)
    clock,               \* the time since the process imported the modules,
                         \* one more at the start of every scan
    called               \* the last direct call of a helper: function,
                         \* arguments and result (NoCall when there is none)

vars == <<pc, strategy, url_rejected, respect_robots, max_retries, robots_env,
          playwright_installed, no_delay, attempt, response, browser, log, slept,
          report, clock, called>>

(***************************************************************************)
(* Bounds of the model.                                                    *)
(***************************************************************************)
MaxRetries == 2          \* max_retries is drawn from -1 .. MaxRetries
MaxAttempt == 6          \* exponential_backoff is called with 0 .. MaxAttempt
MaxLinks == 2            \* a document handed to _categorize_links has
                         \* 0 .. MaxLinks anchors

(***************************************************************************)
(* Program constants (durations in twentieths of a second).                *)
(***************************************************************************)
MinSec == 50             \* ethical_delay(min_sec = 2.5)
MaxSec == 140            \* ethical_delay(max_sec = 7.0)
CrawlDelay == 200        \* the Crawl-delay of a robots.txt that sets one: 10 s
BaseDelay == 40          \* exponential_backoff(base_delay = 2.0)
MaxDelay == 1200         \* exponential_backoff(max_delay = 60.0)

Min(a, b) == IF a <= b THEN a ELSE b

RECURSIVE Pow2(_)
Pow2(n) == IF n <= 0 THEN 1 ELSE 2 * Pow2(n - 1)

(***************************************************************************)
(* The environment.                                                        *)
(***************************************************************************)
\* What RobotFileParser.read() meets at <origin>/robots.txt.
RobotsOutcomes ==
    {"rules_allow",      \* 200, parsed, the rules allow the url for the agent
     "rules_allow_crawl_delay",  \* the same, with "Crawl-delay: 10" for it
     "rules_disallow",   \* 200, parsed, the rules disallow the url
     "unparsable",       \* 200, body holds no recognisable rule line
     "undecodable",      \* 200, body is not UTF-8: decode raises
     "http_401", "http_403", "http_404", "http_500",
     "connection_error", \* URLError: DNS failure, refused, reset
     "timeout"}

\* HTTP statuses a page fetch or a probe can receive.
OkStatuses == {200}
ErrorStatuses == {404, 500, 429, 503, 509}
Statuses == OkStatuses \cup ErrorStatuses

\* The outcome of requests.get: a response, or one of the exceptions:
\* SSLError, Timeout, or another RequestException that carries no response
\* (ConnectionError, MissingSchema, InvalidURL, TooManyRedirects).
Resp(s) == [kind |-> "response", status |-> s]
Exc(k) == [kind |-> k, status |-> 0]
GetOutcomes ==
    {Resp(s) : s \in Statuses}
        \cup {Exc("SSLError"), Exc("Timeout"), Exc("RequestException")}

NoResponse == [kind |-> "none", status |-> 0]

(***************************************************************************)
(* The User-Agent of the outbound requests.  A User-Agent string is        *)
(* modelled by the product it names and the contact address it embeds.     *)
(***************************************************************************)
\* The contact_email argument of the scan (app.py passes this one; it is not
\* the default of the functions).
ContactEmail == "scraper@example.com"

NoUserAgent == [product |-> "None", contact |-> "None"]

\* get_headers(contact_email)["User-Agent"]:
\* "EthicalCyberScraper/1.0 (Lincoln Commercial Solutions Cybersecurity
\* Project; {contact_email})"
get_headers(contact_email) ==
    [product |-> "EthicalCyberScraper/1.0", contact |-> contact_email]

\* The User-Agent each call site of the scan sends:
\*   robots_read  RobotFileParser.read() calls urllib.request.urlopen(url),
\*                which sends urllib's own "Python-urllib/3.x"
\*   GET          requests.get(url, headers=headers, ...)
\*   HEAD         requests.head(url, timeout=5, allow_redirects=True): no
\*                headers argument, so requests sends "python-requests/2.x"
\*   goto         the browser context was created with user_agent=
\*                "EthicalCyberScraper/1.0 (Lincoln Commercial Solutions;
\*                {contact_email})"
\* The other operations (sleeps, the raw TLS handshake, calls into the
\* browser) send no HTTP request of their own.
request_user_agent(o) ==
    CASE o = "robots_read" -> [product |-> "Python-urllib", contact |-> "None"]
      [] o = "GET" -> get_headers(ContactEmail)
      [] o = "HEAD" -> [product |-> "python-requests", contact |-> "None"]
      [] o = "goto" ->
            [product |-> "EthicalCyberScraper/1.0", contact |-> ContactEmail]
      [] OTHER -> NoUserAgent

(***************************************************************************)
(* The log of operations.                                                  *)
(***************************************************************************)
Op(o, a, k, s) ==
    [op |-> o, attempt |-> a, kind |-> k, status |-> s,
     ua |-> request_user_agent(o)]

Last(s) == s[Len(s)]

(***************************************************************************)
(* scraper/models.py: SecurityReport.                                      *)
(***************************************************************************)
NoReport == [present |-> FALSE]
NoCall == [fn |-> "None"]
NoError == "None"

\* The field defaults of the class.
\* The moment scraper/models.py is imported and the class body evaluated.
ImportTime == 0

\* The field defaults of the class: "timestamp: datetime = datetime.now()" is
\* evaluated once, with the class body.
ReportDefaults ==
    [present |-> TRUE,
     status_code |-> 0,
     timestamp |-> ImportTime,
     title |-> "None",
     security_headers |-> <<>>,
     missing_important_headers |-> <<>>,
     server |-> "None",
     powered_by |-> "None",
     has_security_txt |-> FALSE,
     security_txt_url |-> "None",
     js_framework_hints |-> <<>>,
     ssl_verified |-> TRUE,
     ssl_issuer |-> "None",
     extracted_emails |-> <<>>,
     external_links_count |-> 0,
     internal_links_count |-> 0,
     error |-> NoError]

\* SecurityReport(**data): the class declares the fields of ReportDefaults and
\* no others, and its configuration leaves pydantic's handling of unknown
\* keyword arguments at the default, which drops them.
SecurityReport(data) ==
    [f \in DOMAIN ReportDefaults |->
        IF f \in DOMAIN data THEN data[f] ELSE ReportDefaults[f]]

\* SecurityReport.to_dict(): model_dump(mode='json') holds the declared fields.
to_dict(r) == [f \in DOMAIN r \ {"present"} |-> r[f]]

\* SecurityReport(url=url, status_code=s, error=e [, ssl_verified=v])
ErrorReport(s, e, v) ==
    [ReportDefaults EXCEPT !.status_code = s, !.error = e, !.ssl_verified = v]

(***************************************************************************)
(* scraper/ethics.py                                                       *)
(***************************************************************************)
\* RobotFileParser.read() of the standard library, as called at line 29: the
\* state it leaves the parser in, or the exception it lets through.  It turns
\* a 401/403 into disallow_all, any other 4xx into allow_all and swallows
\* every other HTTPError, leaving the parser unread; URLError, socket timeouts
\* and the UTF-8 decode error propagate; a body that was read is parsed, which
\* stamps last_checked whatever the body holds.
RobotFileParser_read(env) ==
    LET rp == [raised |-> FALSE, disallow_all |-> FALSE, allow_all |-> FALSE,
               last_checked |-> FALSE, rules_allow |-> TRUE, delay |-> <<>>]
    IN  CASE env \in {"http_401", "http_403"} -> [rp EXCEPT !.disallow_all = TRUE]
          [] env = "http_404" -> [rp EXCEPT !.allow_all = TRUE]
          [] env = "http_500" -> rp
          [] env \in {"connection_error", "timeout", "undecodable"} ->
                [rp EXCEPT !.raised = TRUE]
          [] env = "rules_disallow" ->
                [rp EXCEPT !.last_checked = TRUE, !.rules_allow = FALSE]
          [] env = "rules_allow_crawl_delay" ->
                [rp EXCEPT !.last_checked = TRUE, !.delay = <<CrawlDelay>>]
          [] OTHER -> [rp EXCEPT !.last_checked = TRUE]

\* RobotFileParser.can_fetch(user_agent, url), as called at line 30.
can_fetch(rp) ==
    IF rp.disallow_all THEN FALSE
    ELSE IF rp.allow_all THEN TRUE
    ELSE IF ~rp.last_checked THEN FALSE
    ELSE rp.rules_allow

is_allowed_by_robots_unchecked(env) == TRUE

\* is_allowed_by_robots: try: read(); return can_fetch()  except: return True
is_allowed_by_robots(env) ==
    LET rp == RobotFileParser_read(env)
    IN  IF rp.raised THEN TRUE ELSE can_fetch(rp)

\* RobotFileParser.crawl_delay(useragent): None while no robots.txt was
\* parsed, else the delay of the entry that applies to the agent (None when
\* the entry sets none).  None is the empty sequence here, a delay d is <<d>>.
crawl_delay(rp) == IF ~rp.last_checked THEN <<>> ELSE rp.delay

\* get_crawl_delay: try: read(); delay = rp.crawl_delay(user_agent);
\* return delay if delay else 0.0  except Exception: return 0.0
get_crawl_delay(env) ==
    LET rp == RobotFileParser_read(env)
    IN  IF rp.raised THEN 0
        ELSE IF crawl_delay(rp) \in {<<>>, <<0>>} THEN 0 ELSE crawl_delay(rp)[1]

\* The values random.triangular(low, high, mode) of the standard library can
\* return, on the time grid.  It draws u in [0, 1), sets
\* c = (mode - low) / (high - low), mirrors the draw when u > c, and returns
\* low + (high - low) * sqrt(u * c).  With low <= mode <= high that is the
\* whole interval; with mode > high, u never exceeds c and the result v
\* satisfies (v - low)^2 = (high - low)^2 * u * c < (high - low) * (mode - low).
triangular(low, high, mode) ==
    IF low <= mode /\ mode <= high
    THEN low .. high
    ELSE {v \in low .. mode :
            (v - low) * (v - low) < (high - low) * (mode - low)}

\* The durations ethical_delay can sleep: the positional call
\* random.triangular(min_sec, (min_sec + max_sec) / 2, max_sec).
\* The parameters of random.triangular(low=0.0, high=1.0, mode=None) bound
\* by position: the second argument of the call is high, the third is mode.
triangular_args(min_sec, max_sec) ==
    [low |-> min_sec, high |-> (min_sec + max_sec) \div 2, mode |-> max_sec]

ethical_delay(min_sec, max_sec) ==
    LET args == triangular_args(min_sec, max_sec)
    IN  triangular(args.low, args.high, args.mode)

RateLimitCodes == {429, 503, 509}

should_respect_rate_limit_429_503(response_status) ==
    response_status \in {429, 503}

should_respect_rate_limit(response_status) ==
    response_status \in RateLimitCodes

\* exponential_backoff as it would be without min(..., max_delay).
exponential_backoff_uncapped(a) ==
    LET delay == BaseDelay * Pow2(a)
    IN  {delay + jitter : jitter \in 0 .. (delay \div 10)}

\* The values exponential_backoff(attempt) can return: delay + jitter with
\* jitter = random.uniform(0, delay * 0.1).
exponential_backoff(a) ==
    LET delay == Min(BaseDelay * Pow2(a), MaxDelay)
    IN  {delay + jitter : jitter \in 0 .. (delay \div 10)}


(***************************************************************************)
(* scraper/utils.py: header classification.                                *)
(***************************************************************************)
ImportantHeaders ==
    <<"Content-Security-Policy", "Strict-Transport-Security",
      "X-Frame-Options", "X-Content-Type-Options", "X-XSS-Protection",
      "Referrer-Policy", "Permissions-Policy", "Cross-Origin-Embedder-Policy",
      "Cross-Origin-Opener-Policy", "Cross-Origin-Resource-Policy">>

BaselineHeaders ==
    <<"Content-Security-Policy", "Strict-Transport-Security",
      "X-Frame-Options", "X-Content-Type-Options">>

\* The header names of the model in the spelling of the standards, and their
\* lower-case and upper-case spellings.
HeaderNames ==
    {"Content-Security-Policy", "Strict-Transport-Security",
     "X-Frame-Options", "X-Content-Type-Options", "X-XSS-Protection",
     "Referrer-Policy", "Permissions-Policy", "Cross-Origin-Embedder-Policy",
     "Cross-Origin-Opener-Policy", "Cross-Origin-Resource-Policy",
     "Server", "X-Powered-By"}

LowerCase(name) ==
    CASE name = "Content-Security-Policy" -> "content-security-policy"
      [] name = "Strict-Transport-Security" -> "strict-transport-security"
      [] name = "X-Frame-Options" -> "x-frame-options"
      [] name = "X-Content-Type-Options" -> "x-content-type-options"
      [] name = "X-XSS-Protection" -> "x-xss-protection"
      [] name = "Referrer-Policy" -> "referrer-policy"
      [] name = "Permissions-Policy" -> "permissions-policy"
      [] name = "Cross-Origin-Embedder-Policy" -> "cross-origin-embedder-policy"
      [] name = "Cross-Origin-Opener-Policy" -> "cross-origin-opener-policy"
      [] name = "Cross-Origin-Resource-Policy" -> "cross-origin-resource-policy"
      [] name = "Server" -> "server"
      [] name = "X-Powered-By" -> "x-powered-by"

UpperCase(name) ==
    CASE name = "Content-Security-Policy" -> "CONTENT-SECURITY-POLICY"
      [] name = "Strict-Transport-Security" -> "STRICT-TRANSPORT-SECURITY"
      [] name = "X-Frame-Options" -> "X-FRAME-OPTIONS"
      [] name = "X-Content-Type-Options" -> "X-CONTENT-TYPE-OPTIONS"
      [] name = "X-XSS-Protection" -> "X-XSS-PROTECTION"
      [] name = "Referrer-Policy" -> "REFERRER-POLICY"
      [] name = "Permissions-Policy" -> "PERMISSIONS-POLICY"
      [] name = "Cross-Origin-Embedder-Policy" -> "CROSS-ORIGIN-EMBEDDER-POLICY"
      [] name = "Cross-Origin-Opener-Policy" -> "CROSS-ORIGIN-OPENER-POLICY"
      [] name = "Cross-Origin-Resource-Policy" -> "CROSS-ORIGIN-RESOURCE-POLICY"
      [] name = "Server" -> "SERVER"
      [] name = "X-Powered-By" -> "X-POWERED-BY"

Spellings(name) == {name, LowerCase(name), UpperCase(name)}

\* str.lower() on a header name, in whichever spelling it comes.
Lower(name) ==
    IF \E n \in HeaderNames : name \in Spellings(n)
    THEN LowerCase(CHOOSE n \in HeaderNames : name \in Spellings(n))
    ELSE name

Range(f) == {f[i] : i \in DOMAIN f}

\* utils.py as it would be with "if key == header": the names compared as
\* they are spelled.
identify_security_headers_exact_case(headers) ==
    LET found == {h \in Range(ImportantHeaders) : h \in DOMAIN headers}
    IN  [h \in found |-> headers[h]]

\* utils.py as it would be with "header not in headers".
get_missing_headers_exact_case(headers) ==
    LET missing(h) == h \notin DOMAIN headers
    IN  SelectSeq(BaselineHeaders, missing)

\* For each canonical name the value of a response header equal to it
\* ignoring case; the keys are the canonical names.
identify_security_headers(headers) ==
    LET found == {h \in Range(ImportantHeaders) :
                    \E key \in DOMAIN headers : Lower(key) = Lower(h)}
    IN  [h \in found |->
            headers[CHOOSE key \in DOMAIN headers : Lower(key) = Lower(h)]]

get_missing_headers(headers) ==
    LET present == {Lower(k) : k \in DOMAIN headers}
        missing(h) == Lower(h) \notin present
    IN  SelectSeq(BaselineHeaders, missing)

\* The header maps the two functions are called with: dict(response.headers)
\* of requests and response.headers of Playwright both hold one entry per
\* header name, however the server spelled it.  Each of the names below is
\* absent or sent in one of three spellings.
SentNames ==
    {"Content-Security-Policy", "Strict-Transport-Security",
     "X-Frame-Options", "X-Content-Type-Options", "Referrer-Policy", "Server"}

HeaderValue(name) ==
    CASE name = "Content-Security-Policy" -> "default-src 'self'"
      [] name = "Strict-Transport-Security" -> "max-age=31536000"
      [] name = "X-Frame-Options" -> "DENY"
      [] name = "X-Content-Type-Options" -> "nosniff"
      [] name = "Referrer-Policy" -> "no-referrer"
      [] OTHER -> "nginx"

Spell(name, style) ==
    CASE style = "lower" -> LowerCase(name)
      [] style = "upper" -> UpperCase(name)
      [] OTHER -> name

HeaderMap(sp) ==
    LET sent == {n \in SentNames : sp[n] # "absent"}
    IN  [k \in {Spell(n, sp[n]) : n \in sent} |->
            HeaderValue(CHOOSE n \in sent : Spell(n, sp[n]) = k)]

HeaderMaps ==
    {HeaderMap(sp) : sp \in [SentNames -> {"absent", "title", "lower", "upper"}]}

(***************************************************************************)
(* scraper/core.py: _categorize_links.  A URL is the record of its parts,  *)
(* and the href of an anchor is one of                                     *)
(*   empty     href=""                                                     *)
(*   fragment  "#top"                                                      *)
(*   opaque    a scheme and the rest, no authority: "javascript:void(0)",  *)
(*             "mailto:admin@a.example", "JavaScript:void(0)", "tel:+1"    *)
(*   relative  a path on the site of the page: "/x"                        *)
(*   absolute  scheme, network location and path: "https://a.example/x"    *)
(***************************************************************************)
Url(scheme, netloc, path, fragment) ==
    [scheme |-> scheme, netloc |-> netloc, path |-> path,
     fragment |-> fragment]

Href(form, url) == [form |-> form, url |-> url]

\* The url argument of the scan.
TargetUrl == Url("https", "a.example", "/page", "")

BaseUrls == {TargetUrl, Url("https", "a.example:8443", "/page", "")}

Hrefs ==
    {Href("empty", Url("", "", "", "")),
     Href("fragment", Url("", "", "", "top")),
     Href("opaque", Url("javascript", "", "void(0)", "")),
     Href("opaque", Url("mailto", "", "admin@a.example", "")),
     Href("opaque", Url("JavaScript", "", "void(0)", "")),
     Href("relative", Url("", "", "/x", "")),
     Href("relative", Url("", "", "/y", "")),
     Href("absolute", Url("https", "a.example", "/x", "")),
     Href("absolute", Url("https", "a.example:8443", "/x", "")),
     Href("absolute", Url("https", "sub.a.example", "/x", "")),
     Href("absolute", Url("https", "other.test", "/z", ""))}

\* "not href or href.startswith(('#', 'javascript:', 'mailto:'))": the
\* prefixes are compared as written, case included.
skipped(href) ==
    \/ href.form = "empty"
    \/ href.form = "fragment"
    \/ href.form = "opaque" /\ href.url.scheme \in {"javascript", "mailto"}

\* urllib.parse.urljoin(base_url, href)
urljoin(base_url, href) ==
    CASE href.form = "empty" -> base_url
      [] href.form = "fragment" ->
            [base_url EXCEPT !.fragment = href.url.fragment]
      [] href.form = "relative" ->
            Url(base_url.scheme, base_url.netloc, href.url.path,
                href.url.fragment)
      [] OTHER -> href.url

\* urllib.parse.urlparse(url).netloc: the authority as written, with the
\* port when the URL names one; empty for a URL without authority.
netloc(url) == url.netloc

\* _categorize_links as it would be without the "continue" of the filter.
categorize_links_unfiltered(base_url, links) ==
    LET is_internal(href) == netloc(urljoin(base_url, href)) = netloc(base_url)
        is_external(href) == ~is_internal(href)
        absolute(l) == [i \in DOMAIN l |-> urljoin(base_url, l[i])]
    IN  [internal |-> absolute(SelectSeq(links, is_internal)),
         external |-> absolute(SelectSeq(links, is_external))]

\* _categorize_links: the two lists, duplicates still in them.
categorize_links(base_url, links) ==
    LET base_domain == netloc(base_url)
        link_domain(href) == netloc(urljoin(base_url, href))
        is_internal(href) == ~skipped(href) /\ link_domain(href) = base_domain
        is_external(href) == ~skipped(href) /\ link_domain(href) # base_domain
        absolute(l) == [i \in DOMAIN l |-> urljoin(base_url, l[i])]
    IN  [internal |-> absolute(SelectSeq(links, is_internal)),
         external |-> absolute(SelectSeq(links, is_external))]

(***************************************************************************)
(* The pages a target can serve: response headers and what the parsed      *)
(* document holds: the markers the static fingerprinting finds in the HTML *)
(* (frameworks) and the framework globals a browser finds after running    *)
(* the scripts (globals).                                                  *)
(***************************************************************************)
BarePage ==
    [title |-> "None",
     headers |-> [k \in {"Server"} |-> "nginx"],
     text_emails |-> <<>>,
     anchors |-> <<>>,
     frameworks |-> <<>>,
     globals |-> {}]

RichPage ==
    [title |-> "Example Domain",
     headers |-> [k \in {"content-security-policy", "X-FRAME-OPTIONS", "Server",
                          "X-Powered-By"} |->
                    CASE k = "content-security-policy" -> "default-src 'self'"
                      [] k = "X-FRAME-OPTIONS" -> "DENY"
                      [] k = "X-Powered-By" -> "PHP/8.2"
                      [] OTHER -> "Apache"],
     text_emails |-> <<"admin@a.example", "sales@a.example", "admin@a.example">>,
     anchors |-> <<Href("relative", Url("", "", "/x", "")),
                   Href("absolute", Url("https", "a.example", "/x", "")),
                   Href("fragment", Url("", "", "", "top")),
                   Href("relative", Url("", "", "/y", "")),
                   Href("opaque", Url("mailto", "", "admin@a.example", "")),
                   Href("absolute", Url("https", "other.test", "/z", ""))>>,
     frameworks |-> <<"React", "jQuery">>,
     globals |-> {"React", "jQuery"}]

Pages == {BarePage, RichPage}

\* Every list that holds each element of the set S once: list(set(...)) yields
\* one of them, which one depends on the hash seed of the process.
RECURSIVE ListsOf(_)
ListsOf(S) ==
    IF S = {} THEN {<<>>}
    ELSE UNION {{<<x>> \o l : l \in ListsOf(S \ {x})} : x \in S}

\* _extract_emails as it would be without set(): findall(...)[:5]
extract_emails_first_matches(text_emails) ==
    {SubSeq(text_emails, 1, Min(5, Len(text_emails)))}

\* _extract_emails: list(set(findall(...)))[:5], text_emails being the list
\* re.findall returns, one entry per occurrence in the text.
extract_emails(text_emails) ==
    {SubSeq(l, 1, Min(5, Len(l))) : l \in ListsOf(Range(text_emails))}

\* The addresses a text can hold, in the order of their first occurrence.
Addresses ==
    <<"admin@a.example", "sales@a.example", "security@a.example",
      "abuse@a.example", "press@a.example", "jobs@other.test">>

\* What re.findall can return: some of the addresses, each once, or each
\* once and then all of them a second time.
FindallResults ==
    LET found(D) == SelectSeq(Addresses, LAMBDA a : a \in D)
    IN  UNION {{found(D), found(D) \o found(D)} : D \in SUBSET Range(Addresses)}

(***************************************************************************)
(* scraper/core.py: security.txt probe and TLS issuer lookup.              *)
(***************************************************************************)
SecurityTxtPaths == <<"/.well-known/security.txt", "/security.txt">>

\* What one requests.head can yield.
ProbeOutcomes == {Resp(200), Resp(404), Exc("RequestException")}

\* _check_security_txt as it would be if the loop went on after a 200 and
\* returned after it: both paths probed, the last hit reported.
check_security_txt_no_early_return(o1, o2) ==
    LET head(i, o) == Op("HEAD", i, o.kind, o.status)
        hit(o) == o.kind = "response" /\ o.status = 200
        url == IF hit(o2) THEN SecurityTxtPaths[2]
               ELSE IF hit(o1) THEN SecurityTxtPaths[1] ELSE "None"
    IN  [found |-> hit(o1) \/ hit(o2), url |-> url,
         ops |-> <<head(1, o1), head(2, o2)>>]

\* _check_security_txt, given what the HEAD requests yield: the result tuple
\* and the HEAD requests issued.
check_security_txt(o1, o2) ==
    LET head(i, o) == Op("HEAD", i, o.kind, o.status)
        hit(o) == o.kind = "response" /\ o.status = 200
    IN  IF hit(o1)
        THEN [found |-> TRUE, url |-> SecurityTxtPaths[1], ops |-> <<head(1, o1)>>]
        ELSE IF hit(o2)
        THEN [found |-> TRUE, url |-> SecurityTxtPaths[2],
              ops |-> <<head(1, o1), head(2, o2)>>]
        ELSE [found |-> FALSE, url |-> "None",
              ops |-> <<head(1, o1), head(2, o2)>>]

\* _get_ssl_info(url).get("issuer"): the organizationName of the issuer,
\* 'Unknown' when the certificate names none, None when the lookup fails.
IssuerOutcomes == {"Example CA", "Unknown", "None"}

\* "links = soup.find_all('a', href=True); internal, external =
\* _categorize_links(url, links)", then list(set(...)) of each list: the
\* distinct URLs of each, in some order.
page_links(page) ==
    LET links == categorize_links(TargetUrl, page.anchors)
    IN  [internal |-> Range(links.internal), external |-> Range(links.external)]

\* response.headers.get(name) of requests: the headers are a
\* CaseInsensitiveDict, and the value is None for a header the response lacks.
CaseInsensitiveDict_get(headers, name) ==
    IF \E k \in DOMAIN headers : Lower(k) = Lower(name)
    THEN headers[CHOOSE k \in DOMAIN headers : Lower(k) = Lower(name)]
    ELSE "None"

\* The data dict _extract_static_data returns.
extract_static_data(resp, sectxt, issuer, emails, now) ==
    [present |-> TRUE,
     status_code |-> resp.status,
     timestamp |-> now,
     title |-> resp.page.title,
     security_headers |-> identify_security_headers(resp.page.headers),
     missing_important_headers |-> get_missing_headers(resp.page.headers),
     server |-> CaseInsensitiveDict_get(resp.page.headers, "Server"),
     powered_by |-> CaseInsensitiveDict_get(resp.page.headers, "X-Powered-By"),
     has_security_txt |-> sectxt.found,
     security_txt_url |-> sectxt.url,
     js_framework_hints |-> resp.page.frameworks,
     ssl_verified |-> TRUE,
     ssl_issuer |-> issuer,
     extracted_emails |-> emails,
     internal_links |-> page_links(resp.page).internal,
     external_links |-> page_links(resp.page).external,
     external_links_count |-> Cardinality(page_links(resp.page).external),
     internal_links_count |-> Cardinality(page_links(resp.page).internal),
     error |-> NoError]


\* Response.headers of Playwright: the header names are lower-cased.
playwright_headers(headers) ==
    [k \in {Lower(n) : n \in DOMAIN headers} |->
        headers[CHOOSE n \in DOMAIN headers : Lower(n) = k]]

\* The page.evaluate probes of scrape_dynamic, in the order of the code.
EvaluatedFrameworks == <<"React", "Vue", "Angular", "jQuery">>

\* The data dict scrape_dynamic builds:
\* it sets no server, no powered_by and no ssl_issuer, which keep the defaults
\* of the class, and title is page.title(), the empty string when the
\* document has none.
extract_dynamic_data(resp, sectxt, emails, now) ==
    LET headers == playwright_headers(resp.page.headers)
        has(f) == f \in resp.page.globals
    IN  [present |-> TRUE,
         status_code |-> resp.status,
         timestamp |-> now,
         title |-> IF resp.page.title = "None" THEN "" ELSE resp.page.title,
         security_headers |-> identify_security_headers(headers),
         missing_important_headers |-> get_missing_headers(headers),
         server |-> ReportDefaults.server,
         powered_by |-> ReportDefaults.powered_by,
         has_security_txt |-> sectxt.found,
         security_txt_url |-> sectxt.url,
         js_framework_hints |-> SelectSeq(EvaluatedFrameworks, has),
         ssl_verified |-> TRUE,
         ssl_issuer |-> ReportDefaults.ssl_issuer,
         extracted_emails |-> emails,
         internal_links |-> page_links(resp.page).internal,
         external_links |-> page_links(resp.page).external,
         external_links_count |-> Cardinality(page_links(resp.page).external),
         internal_links_count |-> Cardinality(page_links(resp.page).internal),
         error |-> NoError]

\* The reports the success path of scrape_static can return for one response,
\* one pair of probe outcomes and one issuer lookup: one for each list
\* _extract_emails can yield.
static_reports(resp, o1, o2, issuer, now) ==
    {SecurityReport(extract_static_data(resp, check_security_txt(o1, o2),
                                        issuer, emails, now)) :
        emails \in extract_emails(resp.page.text_emails)}

\* The same for the success path of scrape_dynamic.
dynamic_reports(resp, o1, o2, now) ==
    {SecurityReport(extract_dynamic_data(resp, check_security_txt(o1, o2),
                                         emails, now)) :
        emails \in extract_emails(resp.page.text_emails)}

(***************************************************************************)
(* The scan.                                                               *)
(***************************************************************************)
Init ==
    /\ pc = "idle"
    /\ strategy = "static"
    /\ url_rejected = FALSE
    /\ respect_robots = TRUE
    /\ max_retries = 0
    /\ robots_env = "rules_allow"
    /\ playwright_installed = TRUE
    /\ no_delay = FALSE
    /\ attempt = 0
    /\ response = NoResponse
    /\ browser = "none"
    /\ log = <<>>
    /\ slept = 0
    /\ report = NoReport
    /\ clock = ImportTime
    /\ called = NoCall

Args == <<strategy, url_rejected, respect_robots, max_retries, robots_env,
          playwright_installed, no_delay>>

\* The caller (main.py, app.py) calls scrape_static or scrape_dynamic on a
\* target.  max_retries is an argument of scrape_static alone, and the
\* browser runtime matters to scrape_dynamic alone.  main.py parses
\* --no-delay into args.no_delay and calls the two functions with url,
\* contact_email, respect_robots, max_retries and timeout: the flag is no
\* argument of theirs.  The scans started with the flag are those of urls
\* pydantic accepts on sites whose robots.txt allows them.  max_retries is
\* an int the caller chooses: range(max_retries) is empty for 0 and for every
\* negative value, which -1 stands for.
StartScan ==
    /\ pc = "idle" /\ called = NoCall
    /\ clock' = clock + 1
    /\ \E st \in {"static", "dynamic"}, rej \in BOOLEAN, rr \in BOOLEAN,
          n \in -1 .. MaxRetries, env \in RobotsOutcomes, pw \in BOOLEAN,
          nd \in BOOLEAN :
            /\ st = "static" => pw
            /\ st = "dynamic" => n = 0
            /\ nd => (~rej /\ env = "rules_allow")
            /\ no_delay' = nd
            /\ strategy' = st
            /\ url_rejected' = rej
            /\ respect_robots' = rr
            /\ max_retries' = n
            /\ robots_env' = env
            /\ playwright_installed' = pw
            /\ pc' = IF st = "static" THEN "robots" ELSE "import"
    /\ slept' = 0
    /\ UNCHANGED <<called, attempt, response, browser, log, report>>

\* SecurityReport(...): pydantic validates url against HttpUrl and raises
\* ValidationError when it does not accept it.  None of the constructions in
\* scrape_static is inside a handler that catches it, and the handler of
\* scrape_dynamic that does builds another SecurityReport with the same url.
Return(r) ==
    IF url_rejected
    THEN pc' = "raised" /\ report' = NoReport
    ELSE pc' = "returned" /\ report' = r

\* "if respect_robots and not is_allowed_by_robots(url): return SecurityReport(
\* url=url, status_code=0, error='Disallowed by robots.txt')", the same in both
\* functions.  The robots.txt is read only when respect_robots is true.
RobotsGate ==
    IF respect_robots
    THEN /\ log' = Append(log, Op("robots_read", 0, robots_env, 0))
         /\ IF is_allowed_by_robots(robots_env)
            THEN pc' = "delay" /\ UNCHANGED report
            ELSE Return(ErrorReport(0, "Disallowed by robots.txt", TRUE))
    ELSE /\ pc' = "delay"
         /\ UNCHANGED <<log, report>>

GateStatic ==
    /\ pc = "robots"
    /\ strategy = "static"
    /\ RobotsGate
    /\ slept' = 0
    /\ UNCHANGED <<clock, called, Args, attempt, response, browser>>

\* "ethical_delay()" with the default arguments, then on to nxt.
Delay(nxt) ==
    /\ slept' \in ethical_delay(MinSec, MaxSec)
    /\ log' = Append(log, Op("ethical_delay", 0, "sleep", 0))
    /\ pc' = nxt

DelayStatic ==
    /\ pc = "delay"
    /\ strategy = "static"
    /\ Delay("loop")
    /\ attempt' = 0
    /\ UNCHANGED <<clock, called, Args, response, browser, report>>

\* "if attempt < max_retries - 1", the test of the places that retry.
may_retry_to_the_end(a, n) == a < n

may_retry(a, n) == a < n - 1

\* A raise_for_status that would raise for the 5xx statuses alone.
raises_for_status_5xx(status) == 500 <= status /\ status < 600

\* Response.raise_for_status(): HTTPError for a 4xx or 5xx status.
raises_for_status(status) == 400 <= status /\ status < 600

\* The except clause of scrape_static that catches an exception of the given
\* kind: the clauses are tried in the order SSLError, Timeout,
\* RequestException, and HTTPError is a RequestException.
except_clause_all_generic(kind) == "RequestException"

except_clause(kind) ==
    CASE kind = "SSLError" -> "SSLError"
      [] kind = "Timeout" -> "Timeout"
      [] OTHER -> "RequestException"

\* "getattr(e.response, 'status_code', 0) if hasattr(e, 'response') else 0":
\* the status of the response that raised the HTTPError, 0 for an exception
\* without response.
error_status_zero(outcome) == 0

error_status(outcome) ==
    IF outcome.kind = "response" THEN outcome.status ELSE 0

\* The body of the retry loop of scrape_static from the return of
\* requests.get on: what attempt a of n does with the outcome of its GET.
static_attempt(outcome, a, n) ==
    LET continue == [next |-> "continue", report |-> NoReport]
        return(r) == [next |-> "return", report |-> r]
        raised == IF outcome.kind = "response" THEN "HTTPError" ELSE outcome.kind
        clause == except_clause(raised)
    IN  IF /\ outcome.kind = "response"
           /\ should_respect_rate_limit(outcome.status)
           /\ may_retry(a, n)
        THEN [next |-> "backoff", report |-> NoReport]
        ELSE IF /\ outcome.kind = "response"
                /\ ~raises_for_status(outcome.status)
        THEN [next |-> "extract", report |-> NoReport]
        ELSE IF clause = "SSLError"
        THEN return(ErrorReport(0, "SSL verification failed", FALSE))
        ELSE IF clause = "Timeout"
        THEN IF may_retry(a, n)
             THEN continue
             ELSE return(ErrorReport(0, "Request timeout", TRUE))
        ELSE IF may_retry(a, n)
             THEN continue
             ELSE return(ErrorReport(error_status(outcome), raised, TRUE))

\* One iteration of "for attempt in range(max_retries)": requests.get and the
\* handling of its outcome, up to the next sleep, extraction or return.
Fetch ==
    /\ pc = "loop"
    /\ attempt < max_retries
    /\ \E o \in GetOutcomes, pg \in Pages :
          LET step == static_attempt(o, attempt, max_retries)
          IN  /\ log' = Append(log, Op("GET", attempt, o.kind, o.status))
              /\ CASE step.next = "backoff" ->
                        /\ pc' = "backoff"
                        /\ UNCHANGED <<attempt, response, report>>
                   [] step.next = "continue" ->
                        /\ pc' = "loop"
                        /\ attempt' = attempt + 1
                        /\ UNCHANGED <<response, report>>
                   [] step.next = "extract" ->
                        /\ pc' = "extract"
                        /\ response' = [kind |-> o.kind, status |-> o.status,
                                        page |-> pg]
                        /\ UNCHANGED <<attempt, report>>
                   [] OTHER ->
                        /\ Return(step.report)
                        /\ UNCHANGED <<attempt, response>>
    /\ slept' = 0
    /\ UNCHANGED <<clock, called, Args, browser>>

\* "time.sleep(backoff_time); continue" with
\* backoff_time = exponential_backoff(attempt).
BackoffSleep ==
    /\ pc = "backoff"
    /\ slept' \in exponential_backoff(attempt)
    /\ log' = Append(log, Op("backoff_sleep", attempt, "sleep", 0))
    /\ pc' = "loop"
    /\ attempt' = attempt + 1
    /\ UNCHANGED <<clock, called, Args, response, browser, report>>

\* The loop ends without a return: the code after it ("Should not reach
\* here").
LoopExit ==
    /\ pc = "loop"
    /\ attempt >= max_retries
    /\ Return(ErrorReport(0, "Max retries exceeded", TRUE))
    /\ slept' = 0
    /\ UNCHANGED <<clock, called, Args, attempt, response, browser, log>>

\* The success path of scrape_static: _extract_static_data (classification of
\* the headers and the document, then the security.txt probe, then the TLS
\* issuer lookup) and SecurityReport(**report_data).
ExtractStatic ==
    /\ pc = "extract"
    /\ strategy = "static"
    /\ \E o1 \in ProbeOutcomes, o2 \in ProbeOutcomes, issuer \in IssuerOutcomes :
          LET sectxt == check_security_txt(o1, o2)
          IN  /\ log' = log \o <<Op("extract", 0, "local", response.status)>>
                            \o sectxt.ops
                            \o <<Op("tls_lookup", 0, issuer, 0)>>
              /\ \E r \in static_reports(response, o1, o2, issuer, clock) :
                    Return(r)
    /\ slept' = 0
    /\ UNCHANGED <<clock, called, Args, attempt, response, browser>>

(***************************************************************************)
(* scrape_dynamic.                                                         *)
(***************************************************************************)
\* "from playwright.sync_api import sync_playwright" in its try block, the
\* first statement of the function; ImportError returns the report.
ImportPlaywright ==
    /\ pc = "import"
    /\ IF playwright_installed
       THEN pc' = "robots" /\ UNCHANGED report
       ELSE Return(ErrorReport(0, "Playwright not installed", TRUE))
    /\ slept' = 0
    /\ UNCHANGED <<clock, called, Args, attempt, response, browser, log>>

GateDynamic ==
    /\ pc = "robots"
    /\ strategy = "dynamic"
    /\ RobotsGate
    /\ slept' = 0
    /\ UNCHANGED <<clock, called, Args, attempt, response, browser>>

DelayDynamic ==
    /\ pc = "delay"
    /\ strategy = "dynamic"
    /\ Delay("launch")
    /\ UNCHANGED <<clock, called, Args, attempt, response, browser, report>>

\* A try block without the with statement: nothing stops the driver.
playwright_exit_leaves_browser(b) == b

\* Leaving "with sync_playwright() as p", by return or by exception, stops
\* the Playwright driver, and the driver closes the browsers it launched
\* that are still open.
playwright_exit(b) == IF b = "open" THEN "closed" ELSE b

\* An exception inside the with block leaves it and then reaches
\* "except Exception", which returns the report.
PlaywrightError(ops) ==
    /\ log' = log \o ops \o <<Op("playwright_stop", 0, "local", 0)>>
    /\ browser' = playwright_exit(browser)
    /\ Return(ErrorReport(0, "Playwright error", TRUE))

\* sync_playwright(), chromium.launch, new_context and new_page; any of them
\* can raise, e.g. when the browser binaries are not installed.
Launch ==
    /\ pc = "launch"
    /\ \/ /\ log' = Append(log, Op("launch", 0, "ok", 0))
          /\ browser' = "open"
          /\ pc' = "goto"
          /\ UNCHANGED report
       \/ PlaywrightError(<<Op("launch", 0, "Error", 0)>>)
       \* the browser is launched and new_context or new_page raises
       \/ /\ log' = log \o <<Op("launch", 0, "ok", 0),
                              Op("new_page", 0, "Error", 0),
                              Op("playwright_stop", 0, "local", 0)>>
          /\ browser' = playwright_exit("open")
          /\ Return(ErrorReport(0, "Playwright error", TRUE))
    /\ slept' = 0
    /\ UNCHANGED <<clock, called, Args, attempt, response>>

\* What page.goto can yield: the response of the main resource whatever its
\* status, None, or an exception (navigation timeout, network error).
GotoOutcomes ==
    {Resp(s) : s \in Statuses} \cup {NoResponse, Exc("TimeoutError")}

\* scrape_dynamic as it would be with the navigation in a retry loop.
GotoRetrying ==
    /\ pc = "goto"
    /\ Len(log) < 8
    /\ \E o \in GotoOutcomes, pg \in Pages :
          /\ log' = Append(log, Op("goto", 0, o.kind, o.status))
          /\ IF o.kind = "response"
             THEN /\ response' = [kind |-> o.kind, status |-> o.status,
                                  page |-> pg]
                  /\ pc' = "render"
             ELSE UNCHANGED <<response, pc>>
    /\ slept' = 0
    /\ UNCHANGED <<clock, called, Args, attempt, browser, report>>

\* "response = page.goto(...)" and "if not response: browser.close(); return
\* SecurityReport(url=url, status_code=0, error='Failed to load page')".
Goto ==
    /\ pc = "goto"
    /\ \E o \in GotoOutcomes, pg \in Pages :
          LET goto == Op("goto", 0, o.kind, o.status)
          IN  CASE o.kind = "response" ->
                    /\ log' = Append(log, goto)
                    /\ response' = [kind |-> o.kind, status |-> o.status,
                                    page |-> pg]
                    /\ pc' = "render"
                    /\ UNCHANGED <<browser, report>>
                [] o.kind = "none" ->
                    /\ log' = log \o <<goto, Op("close", 0, "ok", 0),
                                       Op("playwright_stop", 0, "local", 0)>>
                    /\ browser' = playwright_exit("closed")
                    /\ Return(ErrorReport(0, "Failed to load page", TRUE))
                    /\ UNCHANGED response
                [] OTHER ->
                    /\ PlaywrightError(<<goto>>)
                    /\ UNCHANGED response
    /\ slept' = 0
    /\ UNCHANGED <<clock, called, Args, attempt>>

\* The calls of the success path of scrape_dynamic that can raise, in program
\* order; "none" when none does.
RenderFailures == {"none", "content", "evaluate", "close"}

\* The rest of scrape_dynamic after a response: page.content(), the header
\* classification, the page.evaluate probes, the e-mail and link extraction,
\* the security.txt probe, browser.close() and SecurityReport(**data).
RenderExtract ==
    /\ pc = "render"
    /\ \E fail \in RenderFailures, o1 \in ProbeOutcomes, o2 \in ProbeOutcomes :
          LET sectxt == check_security_txt(o1, o2)
              call(o, ok) == Op(o, 0, IF ok THEN "ok" ELSE "Error", 0)
              extract == Op("extract", 0, "local", response.status)
          IN  CASE fail = "content" ->
                    PlaywrightError(<<call("content", FALSE)>>)
                [] fail = "evaluate" ->
                    PlaywrightError(<<call("content", TRUE), extract,
                                      call("evaluate", FALSE)>>)
                [] fail = "close" ->
                    PlaywrightError(<<call("content", TRUE), extract,
                                      call("evaluate", TRUE)>>
                                    \o sectxt.ops \o <<call("close", FALSE)>>)
                [] OTHER ->
                    /\ log' = log \o <<call("content", TRUE), extract,
                                       call("evaluate", TRUE)>>
                                  \o sectxt.ops
                                  \o <<call("close", TRUE),
                                       Op("playwright_stop", 0, "local", 0)>>
                    /\ browser' = playwright_exit("closed")
                    /\ \E r \in dynamic_reports(response, o1, o2, clock) :
                          Return(r)
    /\ slept' = 0
    /\ UNCHANGED <<clock, called, Args, attempt, response>>

\* The caller is done with the report (or the exception, or the result of
\* the helper) and the process ends, as the CLI does after its scan; the next
\* process imports the modules afresh.  The functions keep no state between
\* calls; what a process keeps is the class body of SecurityReport, evaluated
\* at ImportTime.
Reset ==
    /\ pc \in {"returned", "raised"} \/ called # NoCall
    /\ pc' = "idle"
    /\ strategy' = "static"
    /\ url_rejected' = FALSE
    /\ respect_robots' = TRUE
    /\ max_retries' = 0
    /\ robots_env' = "rules_allow"
    /\ playwright_installed' = TRUE
    /\ no_delay' = FALSE
    /\ attempt' = 0
    /\ response' = NoResponse
    /\ browser' = "none"
    /\ log' = <<>>
    /\ slept' = 0
    /\ report' = NoReport
    /\ called' = NoCall
    /\ clock' = ImportTime

(***************************************************************************)
(* Direct calls of the helper functions, outside a scan: the functions are *)
(* pure, each call is one step.                                            *)
(***************************************************************************)
Scan == <<pc, Args, attempt, response, browser, log, slept, report>>

Process == <<Scan, clock>>

CallIdentifySecurityHeaders ==
    /\ pc = "idle" /\ called = NoCall
    /\ \E headers \in HeaderMaps :
          called' = [fn |-> "identify_security_headers",
                     headers |-> headers,
                     result |-> identify_security_headers(headers)]
    /\ UNCHANGED Process

CallGetMissingHeaders ==
    /\ pc = "idle" /\ called = NoCall
    /\ \E headers \in HeaderMaps :
          called' = [fn |-> "get_missing_headers",
                     headers |-> headers,
                     result |-> get_missing_headers(headers)]
    /\ UNCHANGED Process

\* The lists of anchors of a document.
LinkLists == UNION {[1 .. n -> Hrefs] : n \in 0 .. MaxLinks}

\* _categorize_links(base_url, links) and the list(set(...)) its callers
\* apply to both lists.
CallCategorizeLinks ==
    /\ pc = "idle" /\ called = NoCall
    /\ \E base_url \in BaseUrls, links \in LinkLists :
          LET lists == categorize_links(base_url, links)
          IN  \E internal \in ListsOf(Range(lists.internal)),
                 external \in ListsOf(Range(lists.external)) :
                    called' = [fn |-> "_categorize_links",
                               base_url |-> base_url,
                               links |-> links,
                               internal |-> internal,
                               external |-> external]
    /\ UNCHANGED Process

CallExtractEmails ==
    /\ pc = "idle" /\ called = NoCall
    /\ \E text_emails \in FindallResults :
          \E emails \in extract_emails(text_emails) :
              called' = [fn |-> "_extract_emails",
                         text_emails |-> text_emails,
                         result |-> emails]
    /\ UNCHANGED Process

CallExponentialBackoff ==
    /\ pc = "idle" /\ called = NoCall
    /\ \E a \in 0 .. MaxAttempt :
          \E delay \in exponential_backoff(a) :
              called' = [fn |-> "exponential_backoff",
                         attempt |-> a,
                         result |-> delay]
    /\ UNCHANGED Process

CallGetCrawlDelay ==
    /\ pc = "idle" /\ called = NoCall
    /\ \E env \in RobotsOutcomes :
          called' = [fn |-> "get_crawl_delay",
                     robots_env |-> env,
                     result |-> get_crawl_delay(env)]
    /\ UNCHANGED Process

\* ethical_delay() with its defaults.
CallEthicalDelay ==
    /\ pc = "idle" /\ called = NoCall
    /\ \E delay \in ethical_delay(MinSec, MaxSec) :
          called' = [fn |-> "ethical_delay",
                     sampler |-> triangular_args(MinSec, MaxSec),
                     result |-> delay]
    /\ UNCHANGED Process

\* Two scans run by one process, one after the other, of one target that
\* answers both in the same way: the page GET (of a scan with max_retries = 1)
\* or the navigation with the same response or with a timeout both times,
\* the security.txt probes with the same outcomes, the TLS lookup with the
\* same certificate.  Each of the two is done with scrape_static or with
\* scrape_dynamic.
ScanTwice ==
    /\ pc = "idle" /\ called = NoCall
    /\ clock' = clock + 2
    /\ \E s1 \in {"static", "dynamic"}, s2 \in {"static", "dynamic"},
          answer \in {Resp(s) : s \in OkStatuses} \cup {Exc("Timeout")},
          pg \in Pages,
          o1 \in ProbeOutcomes, o2 \in ProbeOutcomes,
          issuer \in IssuerOutcomes :
          LET resp == [kind |-> answer.kind, status |-> answer.status,
                       page |-> pg]
              reports(s, now) ==
                  IF answer.kind # "response"
                  THEN IF s = "static"
                       THEN {static_attempt(answer, 0, 1).report}
                       ELSE {ErrorReport(0, "Playwright error", TRUE)}
                  ELSE IF s = "static"
                       THEN static_reports(resp, o1, o2, issuer, now)
                       ELSE dynamic_reports(resp, o1, o2, now)
          IN  \E first \in reports(s1, clock + 1),
                 second \in reports(s2, clock + 2) :
                  called' = [fn |-> "scan twice",
                             strategies |-> <<s1, s2>>,
                             response |-> resp,
                             issuer |-> issuer,
                             started |-> <<clock + 1, clock + 2>>,
                             first |-> first,
                             second |-> second]
    /\ UNCHANGED Scan

Next ==
    \/ StartScan
    \/ GateStatic
    \/ DelayStatic
    \/ Fetch
    \/ BackoffSleep
    \/ LoopExit
    \/ ExtractStatic
    \/ ImportPlaywright
    \/ GateDynamic
    \/ DelayDynamic
    \/ Launch
    \/ Goto
    \/ RenderExtract
    \/ Reset
    \/ CallIdentifySecurityHeaders
    \/ CallGetMissingHeaders
    \/ CallCategorizeLinks
    \/ CallExtractEmails
    \/ CallExponentialBackoff
    \/ CallEthicalDelay
    \/ CallGetCrawlDelay
    \/ ScanTwice

Spec == Init /\ [][Next]_vars


(***************************************************************************)
(* Vocabulary of the properties.                                           *)
(***************************************************************************)
Done == pc \in {"returned", "raised"}
Returned == pc = "returned"
IsOp(i, o) == i \in DOMAIN log /\ log[i].op = o
IsGet(i) == IsOp(i, "GET")
PageFetchOps == {"GET", "goto"}
ExtractionOps == {"extract", "HEAD", "tls_lookup"}
RobotsRead == Op("robots_read", 0, robots_env, 0)
IsErrorReport == Returned /\ report.error # NoError
\* The gate ran and turned the scan away.
TurnedAway == Done /\ log = <<RobotsRead>>

(***************************************************************************)
(* C1 (as stated): for both functions called with respect_robots = true,   *)
(* when the robots.txt rules disallow the url the scan performs the        *)
(* robots.txt read and nothing else (no delay, no page fetch, no probe, no *)
(* TLS lookup), and the report it returns has status_code 0 and the error  *)
(* 'Disallowed by robots.txt'.                                             *)
(***************************************************************************)
C1_DisallowedAsStated ==
    (respect_robots /\ robots_env = "rules_disallow" /\ pc # "idle") =>
        /\ \A i \in DOMAIN log : log[i] = RobotsRead
        /\ Len(log) <= 1
        /\ Returned => /\ report.status_code = 0
                       /\ report.error = "Disallowed by robots.txt"

(***************************************************************************)
(* C1 (amended): the above holds for scrape_static, and for scrape_dynamic *)
(* when the Playwright runtime can be imported; when it cannot,            *)
(* scrape_dynamic returns the 'Playwright not installed' report with       *)
(* status_code 0 before the robots.txt is read, having performed no        *)
(* operation at all.                                                       *)
(***************************************************************************)
C1_DisallowedStopsScan ==
    (respect_robots /\ robots_env = "rules_disallow" /\ pc # "idle") =>
        /\ \A i \in DOMAIN log : log[i] = RobotsRead
        /\ Len(log) <= 1
        /\ report.present => report.status_code = 0
        /\ IF strategy = "dynamic" /\ ~playwright_installed
           THEN /\ log = <<>>
                /\ Returned => report.error = "Playwright not installed"
           ELSE /\ Done => log = <<RobotsRead>>
                /\ Returned => report.error = "Disallowed by robots.txt"

C1_Witness ==
    /\ Returned
    /\ strategy = "dynamic"
    /\ respect_robots
    /\ robots_env = "rules_disallow"
    /\ log = <<RobotsRead>>
    /\ report.error = "Disallowed by robots.txt"

(***************************************************************************)
(* C2: in scrape_static a GET that returns a 4xx/5xx status outside the    *)
(* backoff set ends the scan: it is the last operation of the scan, and    *)
(* the report returned carries the received status and an error.           *)
(***************************************************************************)
C2_DefinitiveErrorIsTerminal ==
    \A i \in DOMAIN log :
        (/\ IsGet(i)
         /\ log[i].kind = "response"
         /\ log[i].status >= 400
         /\ log[i].status \notin {429, 503, 509}) =>
            /\ i = Len(log)
            /\ Done
            /\ Returned => /\ report.status_code = log[i].status
                           /\ report.error # NoError

(***************************************************************************)
(* C3: in scrape_static a certificate verification failure on any attempt  *)
(* ends the scan at once: no operation follows the failing GET, whatever   *)
(* the retry budget left, and the report returned has ssl_verified false,  *)
(* status_code 0 and the certificate error.                                *)
(***************************************************************************)
C3_CertificateErrorIsTerminal ==
    \A i \in DOMAIN log :
        (IsGet(i) /\ log[i].kind = "SSLError") =>
            /\ i = Len(log)
            /\ Done
            /\ Returned => /\ report.ssl_verified = FALSE
                           /\ report.status_code = 0
                           /\ report.error = "SSL verification failed"

C3_Witness ==
    /\ Returned
    /\ max_retries = 2
    /\ IsGet(Len(log))
    /\ Last(log).kind = "SSLError"
    /\ Last(log).attempt = 0
    /\ report.ssl_verified = FALSE

(***************************************************************************)
(* C4: in scrape_static with max_retries = N >= 1, a timeout on an attempt *)
(* that is not the last is followed directly by the next attempt's GET (no *)
(* sleep between the two), a timeout on the last attempt ends the scan     *)
(* with status_code 0 and the timeout error, and a scan all of whose       *)
(* attempts timed out has issued exactly N GETs.                           *)
(***************************************************************************)
GetCount == Cardinality({i \in DOMAIN log : IsGet(i)})

C4_TimeoutRetriedToTheCap ==
    /\ \A i \in DOMAIN log :
          (IsGet(i) /\ log[i].kind = "Timeout") =>
              IF log[i].attempt + 1 < max_retries
              THEN IF i < Len(log)
                   THEN IsGet(i + 1) /\ log[i + 1].attempt = log[i].attempt + 1
                   ELSE pc = "loop" /\ attempt = log[i].attempt + 1
              ELSE /\ i = Len(log)
                   /\ Done
                   /\ Returned => /\ report.status_code = 0
                                  /\ report.error = "Request timeout"
    /\ (/\ Done
        /\ GetCount > 0
        /\ \A i \in DOMAIN log : IsGet(i) => log[i].kind = "Timeout") =>
            GetCount = max_retries

C4_Witness ==
    /\ Returned
    /\ max_retries = 2
    /\ GetCount = 2
    /\ \A i \in DOMAIN log : IsGet(i) => log[i].kind = "Timeout"
    /\ report.error = "Request timeout"

(***************************************************************************)
(* C5: in scrape_static a backoff sleep happens exactly after a GET that   *)
(* returned 429, 503 or 509 on an attempt that was not the last permitted  *)
(* one; it lasts a value of exponential_backoff for the 0-based index of   *)
(* that attempt (2 s * 2^index capped at 60 s, plus at most a tenth), and  *)
(* the next operation is the GET of the next attempt.                      *)
(* should_respect_rate_limit is true for 429, 503 and 509 alone.           *)
(***************************************************************************)
RateLimitedNotLast(i) ==
    /\ IsGet(i)
    /\ log[i].kind = "response"
    /\ log[i].status \in {429, 503, 509}
    /\ log[i].attempt < max_retries - 1

BackoffBase(a) == Min(BaseDelay * Pow2(a), MaxDelay)

C5_BackoffExactlyOnRateLimit ==
    /\ \A i \in DOMAIN log :
          IsOp(i, "backoff_sleep") =>
              /\ i > 1
              /\ RateLimitedNotLast(i - 1)
              /\ IF i < Len(log)
                 THEN IsGet(i + 1) /\ log[i + 1].attempt = log[i - 1].attempt + 1
                 ELSE /\ pc = "loop"
                      /\ attempt = log[i - 1].attempt + 1
                      /\ attempt < max_retries
                      /\ slept >= BackoffBase(log[i - 1].attempt)
                      /\ 10 * slept <= 11 * BackoffBase(log[i - 1].attempt)
    /\ \A i \in DOMAIN log :
          IsGet(i) =>
              IF RateLimitedNotLast(i)
              THEN IF i < Len(log) THEN IsOp(i + 1, "backoff_sleep")
                   ELSE pc = "backoff"
              ELSE IF i < Len(log) THEN ~IsOp(i + 1, "backoff_sleep")
                   ELSE pc # "backoff"
    /\ \A s \in 100 .. 599 :
          should_respect_rate_limit(s) <=> s \in {429, 503, 509}

C5_Witness ==
    /\ Len(log) >= 4
    /\ IsGet(Len(log))
    /\ IsOp(Len(log) - 1, "backoff_sleep")
    /\ log[Len(log) - 2].status = 509
    /\ log[Len(log) - 2].attempt = 0
    /\ Last(log).attempt = 1


(***************************************************************************)
(* C6: every page fetch attempt is immediately preceded by its own ethical *)
(* delay: the operation before each GET of scrape_static is an             *)
(* ethical_delay sleep.                                                    *)
(***************************************************************************)
C6_DelayBeforeEveryGet ==
    \A i \in DOMAIN log :
        IsGet(i) => i > 1 /\ IsOp(i - 1, "ethical_delay")

(***************************************************************************)
(* C7: is_allowed_by_robots fails open: a scan whose robots check ran is   *)
(* turned away only when a robots.txt was read and its rules disallow the  *)
(* url; for every failure of the fetch or the parse (connection error,     *)
(* timeout, an HTTP error status on /robots.txt, an unparsable or          *)
(* undecodable body) the scan goes on to the delay and the page fetch.     *)
(***************************************************************************)
C7_RobotsFailOpen ==
    (Returned /\ TurnedAway) => robots_env = "rules_disallow"

(***************************************************************************)
(* C8: scrape_static and scrape_dynamic never raise: every scan ends in a  *)
(* returned report, for every failure mode and for a url that HttpUrl does *)
(* not accept.                                                             *)
(***************************************************************************)
C8_NeverRaises == pc # "raised"

(***************************************************************************)
(* C9 (as stated): a returned report with error set has status_code 0 and  *)
(* every other numeric and collection field zero or empty, and carries no  *)
(* field that signals success.                                             *)
(***************************************************************************)
ExtractionFieldsEmpty(r) ==
    /\ DOMAIN r.security_headers = {}
    /\ r.missing_important_headers = <<>>
    /\ r.js_framework_hints = <<>>
    /\ r.extracted_emails = <<>>
    /\ r.external_links_count = 0
    /\ r.internal_links_count = 0
    /\ r.has_security_txt = FALSE
    /\ r.security_txt_url = "None"
    /\ r.title = "None"
    /\ r.server = "None"
    /\ r.powered_by = "None"
    /\ r.ssl_issuer = "None"

C10_NoExtractionOnFailedFetch ==
    /\ \A i \in DOMAIN log :
          log[i].op \in ExtractionOps =>
              \E j \in 1 .. (i - 1) :
                  /\ log[j].op \in PageFetchOps
                  /\ log[j].kind = "response"
                  /\ log[j].status < 400
    /\ IsErrorReport =>
          \A i \in DOMAIN log : log[i].op \notin ExtractionOps


(***************************************************************************)
(* C11: every outbound request of a scan (the robots.txt read, each page   *)
(* GET, each security.txt HEAD probe, the browser navigation) carries a    *)
(* User-Agent that names the product 'EthicalCyberScraper/1.0' and embeds  *)
(* the contact address the caller supplied.                                *)
(***************************************************************************)
OutboundRequests == {"robots_read", "GET", "HEAD", "goto"}

C11_EveryRequestIdentifies ==
    \A i \in DOMAIN log :
        log[i].op \in OutboundRequests =>
            /\ log[i].ua.product = "EthicalCyberScraper/1.0"
            /\ log[i].ua.contact = ContactEmail

(***************************************************************************)
(* C12: a success report exposes the deduplicated internal and external    *)
(* link sets themselves, readable as report.internal_links and             *)
(* report.external_links and present in to_dict(), and the two counts      *)
(* equal the sizes of those sets.                                          *)
(***************************************************************************)
Success == Returned /\ report.error = NoError

C12_LinkSetsExposed ==
    Success =>
        /\ {"internal_links", "external_links"} \subseteq DOMAIN report
        /\ {"internal_links", "external_links"} \subseteq DOMAIN to_dict(report)
        /\ report.internal_links_count = Cardinality(report.internal_links)
        /\ report.external_links_count = Cardinality(report.external_links)

(***************************************************************************)
(* C13: the classification of headers ignores the case of their names.     *)
(* identify_security_headers returns an entry under the canonical name h   *)
(* exactly when the response has a header equal to h ignoring case, with   *)
(* the value as received; and changing only the letter case of the         *)
(* response's header names changes neither that map nor the list           *)
(* get_missing_headers returns.                                            *)
(***************************************************************************)
SameIgnoringCase(a, b) ==
    \/ a = b
    \/ \E n \in HeaderNames : a \in Spellings(n) /\ b \in Spellings(n)

\* The header map with every name respelled in one style.
Respelled(headers, style) ==
    LET name(k) == CHOOSE n \in HeaderNames : k \in Spellings(n)
    IN  [k2 \in {Spell(name(k), style) : k \in DOMAIN headers} |->
            headers[CHOOSE k \in DOMAIN headers : Spell(name(k), style) = k2]]

C13_ClassificationIgnoresCase ==
    /\ called.fn = "identify_security_headers" =>
          LET h == called.headers
              r == called.result
          IN  /\ DOMAIN r =
                    {c \in Range(ImportantHeaders) :
                        \E k \in DOMAIN h : SameIgnoringCase(k, c)}
              /\ \A c \in DOMAIN r :
                    \E k \in DOMAIN h : SameIgnoringCase(k, c) /\ r[c] = h[k]
              /\ \A style \in {"title", "lower", "upper"} :
                    identify_security_headers(Respelled(h, style)) = r
    /\ called.fn = "get_missing_headers" =>
          \A style \in {"title", "lower", "upper"} :
              get_missing_headers(Respelled(called.headers, style))
                  = called.result

C13_Witness ==
    /\ called.fn = "identify_security_headers"
    /\ DOMAIN called.headers = {"X-FRAME-OPTIONS", "content-security-policy"}
    /\ DOMAIN called.result = {"X-Frame-Options", "Content-Security-Policy"}
    /\ called.result["X-Frame-Options"] = "DENY"

(***************************************************************************)
(* C14: get_missing_headers returns exactly the baseline headers           *)
(* (Content-Security-Policy, Strict-Transport-Security, X-Frame-Options,   *)
(* X-Content-Type-Options) that have no case-insensitive match among the   *)
(* response headers, in that order and without duplicates; so each         *)
(* baseline header of a report is a key of security_headers or an element  *)
(* of missing_important_headers, never both and never neither.             *)
(***************************************************************************)
\* s lists elements of t, in the order of t, each at most once.
IsSubsequence(s, t) ==
    /\ Range(s) \subseteq Range(t)
    /\ \A i, j \in DOMAIN s :
          i < j =>
              \E m, n \in DOMAIN t : m < n /\ t[m] = s[i] /\ t[n] = s[j]

MissingIsTheRest ==
    called.fn = "get_missing_headers" =>
        /\ Range(called.result) =
              {b \in Range(BaselineHeaders) :
                  ~ \E k \in DOMAIN called.headers : SameIgnoringCase(k, b)}
        /\ IsSubsequence(called.result, BaselineHeaders)

FoundOrMissing(r) ==
    \A b \in Range(BaselineHeaders) :
        (b \in DOMAIN r.security_headers)
            # (b \in Range(r.missing_important_headers))

\* As stated: of any report.
C14_MissingAsStated ==
    /\ MissingIsTheRest
    /\ Returned => FoundOrMissing(report)

\* Of the reports of a scan that fetched the page: the report of a scan that
\* ended in an error has neither headers found nor headers missing.
C14_MissingIsComplement ==
    /\ MissingIsTheRest
    /\ Success => FoundOrMissing(report)
    /\ (Returned /\ ~Success) =>
          /\ DOMAIN report.security_headers = {}
          /\ report.missing_important_headers = <<>>

C14_Witness ==
    /\ Success
    /\ DOMAIN report.security_headers =
          {"Content-Security-Policy", "X-Frame-Options"}
    /\ report.missing_important_headers =
          <<"Strict-Transport-Security", "X-Content-Type-Options">>

(***************************************************************************)
(* C15: link categorisation.  A target that is fragment-only, javascript:  *)
(* or mailto: is in neither set; every other target, resolved against the  *)
(* base URL, is internal exactly when its host equals the host of the base *)
(* URL by exact string match (the authority as written, subdomains and     *)
(* ports not normalised) and external otherwise; after deduplication each  *)
(* resolved URL occurs once, and the two sets are disjoint.                *)
(***************************************************************************)
NoDuplicates(s) == \A i, j \in DOMAIN s : s[i] = s[j] => i = j

Discarded(href) ==
    \/ href.form = "fragment"
    \/ href.form = "opaque" /\ href.url.scheme \in {"javascript", "mailto"}

\* The categorisation of the anchors that are not in drop.
Categorised(drop(_)) ==
    called.fn = "_categorize_links" =>
        LET base == called.base_url
            kept == {h \in Range(called.links) : ~drop(h)}
            same_host(h) == urljoin(base, h).netloc = base.netloc
        IN  /\ Range(called.internal) =
                  {urljoin(base, h) : h \in {k \in kept : same_host(k)}}
            /\ Range(called.external) =
                  {urljoin(base, h) : h \in {k \in kept : ~same_host(k)}}
            /\ NoDuplicates(called.internal)
            /\ NoDuplicates(called.external)
            /\ Range(called.internal) \cap Range(called.external) = {}

\* As stated: only the three kinds of target are discarded.
C15_LinksAsStated == Categorised(Discarded)

\* An anchor with an empty href is discarded too.
DiscardedOrEmpty(href) == href.form = "empty" \/ Discarded(href)

C15_LinksCategorised == Categorised(DiscardedOrEmpty)

C15_Witness ==
    /\ called.fn = "_categorize_links"
    /\ called.base_url = TargetUrl
    /\ called.links = <<Href("relative", Url("", "", "/x", "")),
                        Href("absolute", Url("https", "a.example", "/x", ""))>>
    /\ called.internal = <<Url("https", "a.example", "/x", "")>>
    /\ called.external = <<>>

(***************************************************************************)
(* C16: extracted_emails holds at most five addresses, none of them twice, *)
(* each of them an address that occurs in the text of the document; when   *)
(* the text holds five or fewer distinct addresses, all of them are        *)
(* returned.                                                               *)
(***************************************************************************)
C16_EmailsCappedAndDistinct ==
    /\ called.fn = "_extract_emails" =>
          LET in_text == Range(called.text_emails)
              emails == called.result
          IN  /\ Len(emails) <= 5
              /\ NoDuplicates(emails)
              /\ Range(emails) \subseteq in_text
              /\ Cardinality(in_text) <= 5 => Range(emails) = in_text
              /\ Cardinality(in_text) > 5 => Len(emails) = 5
    /\ Success =>
          /\ Len(report.extracted_emails) <= 5
          /\ NoDuplicates(report.extracted_emails)
          /\ Range(report.extracted_emails)
                = Range(response.page.text_emails)

C16_Witness ==
    /\ called.fn = "_extract_emails"
    /\ Len(called.text_emails) = 12
    /\ Len(called.result) = 5
    /\ NoDuplicates(called.result)

(***************************************************************************)
(* C17: exponential_backoff(attempt) returns d + j with                    *)
(* d = min(2 * 2^attempt, 60) seconds and 0 <= j <= d / 10: the result is  *)
(* at least d and at most 66 seconds, and for every attempt n at which     *)
(* 2 * 2^n is below the cap, no value it can return for n exceeds a value  *)
(* it can return for n + 1.                                                *)
(***************************************************************************)
C17_BackoffBounded ==
    called.fn = "exponential_backoff" =>
        LET n == called.attempt
            d == Min(BaseDelay * Pow2(n), MaxDelay)
            j == called.result - d
        IN  /\ 0 <= j /\ 10 * j <= d
            /\ called.result >= d
            /\ 10 * called.result <= 11 * MaxDelay
            /\ BaseDelay * Pow2(n) < MaxDelay =>
                  \A later \in exponential_backoff(n + 1) :
                      called.result <= later

\* Attempt 4: the longest wait (32 s and all of the jitter) below the cap.
C17_Witness ==
    /\ called.fn = "exponential_backoff"
    /\ called.attempt = 4
    /\ 10 * called.result = 11 * BaseDelay * Pow2(4)

(***************************************************************************)
(* C18: the security.txt probe tries /.well-known/security.txt and then    *)
(* /security.txt, and stops at the first that answers 200: the second path *)
(* is probed only if the first did not answer 200 or raised.               *)
(* has_security_txt is true exactly when some probe answered 200,          *)
(* security_txt_url is then the URL of the first such path and absent      *)
(* otherwise, and a failing probe never sets the error of the report.      *)
(***************************************************************************)
IsHead(op) == op.op = "HEAD"
Hit(op) == op.kind = "response" /\ op.status = 200
Probes == SelectSeq(log, IsHead)

Navigations == {i \in DOMAIN log : IsOp(i, "goto")}

C19_SingleNavigation ==
    /\ Cardinality(Navigations) <= 1
    /\ strategy = "dynamic" =>
          \A i \in DOMAIN log : ~IsOp(i, "backoff_sleep")
    /\ \A i \in Navigations :
          log[i].kind # "response" =>
              /\ Done
              /\ \A j \in DOMAIN log :
                    j > i => log[j].op \in {"close", "playwright_stop"}
              /\ Returned =>
                    /\ report.status_code = 0
                    /\ report.error = IF log[i].kind = "none"
                                      THEN "Failed to load page"
                                      ELSE "Playwright error"
                    /\ ExtractionFieldsEmpty(report)

C19_Witness ==
    /\ Returned
    /\ \E i \in Navigations : log[i].kind = "TimeoutError"
    /\ report.status_code = 0
    /\ report.error = "Playwright error"

(***************************************************************************)
(* C20: in scrape_dynamic the browser, once launched, is closed before the *)
(* function returns, on every exit path: success, no response, navigation  *)
(* exception, and any exception raised during extraction.                  *)
(***************************************************************************)
Launched == \E i \in DOMAIN log : IsOp(i, "launch") /\ log[i].kind = "ok"

C20_BrowserClosedOnExit ==
    /\ Done => browser # "open"
    /\ (Done /\ Launched) => browser = "closed"
    /\ browser # "none" => Launched

\* An exception during extraction: browser.close() was never called, the
\* browser went down with the driver.
C20_Witness ==
    /\ Returned
    /\ Launched
    /\ \E i \in DOMAIN log : IsOp(i, "evaluate") /\ log[i].kind = "Error"
    /\ \A i \in DOMAIN log : ~IsOp(i, "close")
    /\ browser = "closed"

(***************************************************************************)
(* C21: two runs of a scan with identical inputs against a target that     *)
(* returns the same responses produce reports that are equal in every      *)
(* field except timestamp, the content and order of extracted_emails and   *)
(* the order of the framework hints included.                              *)
(***************************************************************************)
EqualButTimestamp(r1, r2) ==
    /\ DOMAIN r1 = DOMAIN r2
    /\ \A f \in DOMAIN r1 \ {"timestamp"} : r1[f] = r2[f]

SameScanTwice ==
    /\ called.fn = "scan twice"
    /\ called.strategies[1] = called.strategies[2]

C21_RerunGivesSameReport ==
    SameScanTwice => EqualButTimestamp(called.first, called.second)

(***************************************************************************)
(* C22: the timestamp of every report, success or error, is the capture    *)
(* time of the scan that produced it: it is not earlier than the moment    *)
(* that scan was started, so two scans run at different times in one       *)
(* process, both ending in an error report, carry different timestamps.    *)
(***************************************************************************)
\* The clock moves at the start of a scan only: during a scan, and at its
\* return, it shows the moment the scan was started.
C22_TimestampIsCaptureTime ==
    /\ Returned => report.timestamp >= clock
    /\ called.fn = "scan twice" =>
          /\ called.first.timestamp >= called.started[1]
          /\ called.second.timestamp >= called.started[2]
          /\ (called.first.error # NoError /\ called.second.error # NoError)
                => called.first.timestamp # called.second.timestamp

(***************************************************************************)
(* C23: when the CLI is run with --no-delay, the scan it starts performs   *)
(* no ethical delay: no ethical_delay sleep happens between the robots     *)
(* check and the page fetch, in the static or in the dynamic mode.         *)
(***************************************************************************)
C23_NoDelayFlagSkipsDelay ==
    no_delay => \A i \in DOMAIN log : ~IsOp(i, "ethical_delay")

(***************************************************************************)
(* C24: ethical_delay with its defaults sleeps for a duration drawn from   *)
(* the triangular distribution with lower bound min_sec = 2.5 s, upper     *)
(* bound max_sec = 7.0 s and mode the midpoint 4.75 s: the sampler is      *)
(* given low = min_sec, high = max_sec and mode = (min_sec + max_sec) / 2, *)
(* and no delay lies outside [2.5 s, 7.0 s].                               *)
(***************************************************************************)
Midpoint(min_sec, max_sec) == (min_sec + max_sec) \div 2

C24_DelayIsTriangularOverRange ==
    called.fn = "ethical_delay" =>
        /\ called.sampler.low = MinSec
        /\ called.sampler.high = MaxSec
        /\ called.sampler.mode = Midpoint(MinSec, MaxSec)
        /\ called.result \in MinSec .. MaxSec

(***************************************************************************)
(* C25: the gate honors the robots.txt crawl-delay: get_crawl_delay        *)
(* returns the crawl-delay the robots.txt gives for the scanner's user     *)
(* agent, or 0 when there is none or the read fails, and in a scan of a    *)
(* site whose robots.txt sets a crawl-delay of D seconds the wait before   *)
(* the page fetch is at least D seconds.                                   *)
(***************************************************************************)
\* The scan has waited and its first page fetch comes next.
AboutToFetch ==
    /\ pc \in {"loop", "launch"}
    /\ attempt = 0
    /\ log # <<>>
    /\ IsOp(Len(log), "ethical_delay")

C25_CrawlDelayHonored ==
    /\ called.fn = "get_crawl_delay" =>
          called.result = IF called.robots_env = "rules_allow_crawl_delay"
                          THEN CrawlDelay ELSE 0
    /\ (respect_robots /\ robots_env = "rules_allow_crawl_delay" /\ AboutToFetch)
          => slept >= CrawlDelay

(***************************************************************************)
(* C26: scrape_static always terminates with a report and never issues     *)
(* more page GETs than max_retries: a scan that is over has returned a     *)
(* report, for every max_retries and every sequence of fetch outcomes the  *)
(* number of GETs is at most max(max_retries, 0), and with                 *)
(* max_retries <= 0 the scan that passes the robots check issues no GET,   *)
(* sleeps one ethical delay and returns status_code 0 with the error       *)
(* 'Max retries exceeded'.                                                 *)
(***************************************************************************)
Max(a, b) == IF a >= b THEN a ELSE b

OpCount(o) == Cardinality({i \in DOMAIN log : IsOp(i, o)})

\* The part of C26 about the number of GETs and the scans without attempts.
GetsWithinRetries ==
    strategy = "static" =>
        /\ GetCount <= Max(max_retries, 0)
        /\ (Returned /\ max_retries <= 0 /\ ~TurnedAway) =>
              /\ GetCount = 0
              /\ OpCount("ethical_delay") = 1
              /\ IsOp(Len(log), "ethical_delay")
              /\ report.status_code = 0
              /\ report.error = "Max retries exceeded"

C26_TerminatesWithinRetries ==
    /\ (strategy = "static" /\ Done) => Returned
    /\ GetsWithinRetries

(***************************************************************************)
(* C27: in scrape_static, when the last permitted attempt (attempt index   *)
(* max_retries - 1) receives a status in {429, 503, 509}, no backoff sleep *)
(* is performed: that GET is the last operation of the scan, and the       *)
(* report returned is an error report whose status_code is the received    *)
(* status and whose error is set, never a success report built from the    *)
(* rate-limited response (no extraction step runs on it).                  *)
(***************************************************************************)
RateLimitedLast(i) ==
    /\ IsGet(i)
    /\ log[i].kind = "response"
    /\ log[i].status \in {429, 503, 509}
    /\ log[i].attempt = max_retries - 1

C27_RateLimitedLastAttemptIsError ==
    \A i \in DOMAIN log :
        RateLimitedLast(i) =>
            /\ i = Len(log)
            /\ Done
            /\ Returned =>
                  /\ report.status_code = log[i].status
                  /\ report.error # NoError
                  /\ ExtractionFieldsEmpty(report)

C27_Witness ==
    /\ Returned
    /\ max_retries = 2
    /\ Len(log) >= 3
    /\ RateLimitedLast(Len(log))
    /\ Last(log).status = 503
    /\ IsOp(Len(log) - 1, "backoff_sleep")
    /\ report.status_code = 503
    /\ report.error = "HTTPError"

(***************************************************************************)
(* C28: the two fetch strategies fill the same report fields from the same *)
(* response: for a target whose response discloses Server and X-Powered-By *)
(* headers and whose certificate has an issuer organization, the success   *)
(* report of scrape_dynamic has the same server, powered_by and ssl_issuer *)
(* values as the success report of scrape_static.                          *)
(***************************************************************************)
\* One target scanned by scrape_static and then by scrape_dynamic, both with
\* success, disclosing its server, its platform and its certificate issuer.
BothStrategiesOnDisclosingTarget ==
    /\ called.fn = "scan twice"
    /\ called.strategies = <<"static", "dynamic">>
    /\ called.first.error = NoError
    /\ called.second.error = NoError
    /\ {"Server", "X-Powered-By"} \subseteq DOMAIN called.response.page.headers
    /\ called.issuer \notin {"None", "Unknown"}

C28_StrategiesFillSameFields ==
    BothStrategiesOnDisclosingTarget =>
        /\ called.second.server = called.first.server
        /\ called.second.powered_by = called.first.powered_by
        /\ called.second.ssl_issuer = called.first.ssl_issuer

====
